---- MODULE Spec2Model ----
(***************************************************************************)
(* A model of screenkit's enhancement pipeline (src/screenkit/enhance.py): *)
(* the geometry planned by enhance(), the background resolution, the       *)
(* mouse-event selection, the mask/shadow cache, the cursor overlay and    *)
(* the frame loop with its input reader and output writer.                 *)
(*                                                                         *)
(* Numbers.  Python floats are modelled by exact rationals.  A float       *)
(* padding is num/PadDen; Python's int() truncates toward zero (Trunc).    *)
(* Times are counted in ticks of 1/TicksPerSec seconds.                    *)
(***************************************************************************)
EXTENDS Integers, Naturals, Sequences, FiniteSets, TLC

\* ------------------------------------------------------------------ bounds
MaxOrig == 3
MaxCanvas == 4
PadDen == 8
MaxPadInt == 2
MaxFrames == 2
MaxMoves == 3
MaxTime == 3
MaxCalls == 2
MaxFrameDim == 2

\* --------------------------------------------------------------- variables
VARIABLES
    \* the geometry planned by enhance() (lines 189-197)
    dims,              \* the capture and canvas dimensions of the run
    plan,              \* the latest planned geometry with its padding
    prev_plan,         \* the plan made before it, for the same dims
    \* the background resolved by enhance() (lines 202-213)
    background,        \* the background parameter
    files,             \* the files that exist, and those of them that decode as images
    background_frame,  \* the resolved canvas, once resolved
    error,             \* the error raised, or "none"
    \* the process-wide cache (lines 14-22) and the objects allocated so far
    cache_mask,        \* cache.mask: key -> mask image
    cache_shadow,      \* cache.shadow: key -> shadow image
    next_id,           \* the identity the next new image object gets
    \* one run of enhance() (lines 163-261)
    pc,                \* where the run stands
    params,            \* enhance_params, the data file and the input video
    mouse_events,      \* the loaded mouse log
    cap,               \* the input reader: "none", "open" or "released"
    out,               \* the output writer: "none", "open" or "released"
    out_size,          \* the frame size the writer was opened with
    geom,              \* the planned geometry
    frame_count,
    start_time,
    current_time,      \* of the frame at hand, in frame periods (1/fps seconds)
    latest_mouse_event, \* index of the move event chosen for it, 0 for None
    written,           \* the frames handed to the writer, in order
    \* calls of apply_border_radius_with_shadow and of render_cursor
    calls,             \* the compositing calls made so far, with what each used
    frame,             \* the frame given to render_cursor
    cursor_image,      \* the sprite given to it
    cursor_args,       \* the position and the scale given to it
    rendered           \* what it returned or raised, once called

geomVars == <<dims, plan, prev_plan>>
bgVars == <<background, files, background_frame>>
cacheVars == <<cache_mask, cache_shadow, next_id>>
pickVars == <<mouse_events, current_time, latest_mouse_event>>
runVars == <<pc, params, cap, out, out_size, geom, frame_count, start_time, written>>
callVars == <<calls, frame, cursor_image, cursor_args, rendered>>
vars == <<dims, plan, prev_plan, background, files, background_frame, error,
          cache_mask, cache_shadow, next_id, pc, params, mouse_events, cap, out,
          out_size, geom, frame_count, start_time, current_time,
          latest_mouse_event, written, calls, frame, cursor_image, cursor_args,
          rendered>>

None == [none |-> TRUE]

\* ----------------------------------------------------------------- numbers
Max(a, b) == IF a >= b THEN a ELSE b
Min(a, b) == IF a <= b THEN a ELSE b

\* Python's int(a / b) for b > 0: truncation toward zero.
Trunc(a, b) == IF a >= 0 THEN a \div b ELSE -((-a) \div b)

\* ---------------------------------------------------------------- geometry
\* A padding value as enhance() receives it: a float num/PadDen, or an int num.
FloatPaddings == [isFloat : {TRUE}, num : (-1)..(PadDen * MaxCanvas)]
IntPaddings == [isFloat : {FALSE}, num : (-1)..MaxPadInt]
Paddings == FloatPaddings \cup IntPaddings

\* A slip: the fraction test written with a strict upper bound.
IsFractionStrict(padding) == padding.isFloat /\ 0 <= padding.num /\ padding.num < PadDen

\* isinstance(padding, float) and 0 <= padding <= 1
IsFraction(padding) == padding.isFloat /\ 0 <= padding.num /\ padding.num <= PadDen

\* int(padding * dim) if the padding is a fraction, else int(padding)
AxisPadding(padding, dim) ==
    IF IsFraction(padding) THEN Trunc(padding.num * dim, PadDen)
    ELSE IF padding.isFloat THEN Trunc(padding.num, PadDen)
    ELSE padding.num

\* A slip: the tie between equal slacks given to the height.
WidthDrivesStrict(orig_width, orig_height, screen_width, screen_height) ==
    Max(0, screen_width - orig_width) < Max(0, screen_height - orig_height)

\* space_x <= space_y: the width drives
WidthDrives(orig_width, orig_height, screen_width, screen_height) ==
    LET space_x == Max(0, screen_width - orig_width)
        space_y == Max(0, screen_height - orig_height)
    IN  space_x <= space_y

Padding_x(orig_width, orig_height, screen_width, screen_height, padding) ==
    IF WidthDrives(orig_width, orig_height, screen_width, screen_height)
    THEN AxisPadding(padding, screen_width)
    ELSE Trunc(AxisPadding(padding, screen_height) * orig_width, orig_height)

Padding_y(orig_width, orig_height, screen_width, screen_height, padding) ==
    IF WidthDrives(orig_width, orig_height, screen_width, screen_height)
    THEN Trunc(AxisPadding(padding, screen_width) * orig_height, orig_width)
    ELSE AxisPadding(padding, screen_height)

\* A slip: max written for min.
ContentSizeMax(screen_dim, pad, orig_dim) == Max(screen_dim - 2 * pad, orig_dim)

\* new_width = min(screen_width - 2 * padding_x, orig_width), likewise the height
ContentSize(screen_dim, pad, orig_dim) == Min(screen_dim - 2 * pad, orig_dim)

\* x_offset = (screen_width - new_width) // 2
Offset(screen_dim, new_dim) == (screen_dim - new_dim) \div 2

PlanGeometry(orig_width, orig_height, screen_width, screen_height, padding) ==
    LET px == Padding_x(orig_width, orig_height, screen_width, screen_height, padding)
        py == Padding_y(orig_width, orig_height, screen_width, screen_height, padding)
        nw == ContentSize(screen_width, px, orig_width)
        nh == ContentSize(screen_height, py, orig_height)
    IN  [padding_x |-> px, padding_y |-> py,
         new_width |-> nw, new_height |-> nh,
         x_offset |-> Offset(screen_width, nw),
         y_offset |-> Offset(screen_height, nh)]

\* -------------------------------------------------------------- background
\* A string is named by a TLA+ string; Chars gives its characters, on which the
\* string operations work.
Chars ==
    ("default-wallpaper-1" :>
        <<"d","e","f","a","u","l","t","-","w","a","l","l","p","a","p","e","r","-","1">>)
    @@ ("default-wallpaper-2" :>
        <<"d","e","f","a","u","l","t","-","w","a","l","l","p","a","p","e","r","-","2">>)
    @@ ("#ff8000" :> <<"#", "f", "f", "8", "0", "0", "0">>)
    @@ ("00Ff7f" :> <<"0", "0", "F", "f", "7", "f">>)
    @@ ("purple" :> <<"p", "u", "r", "p", "l", "e">>)
    @@ ("#12345" :> <<"#", "1", "2", "3", "4", "5">>)
    @@ ("bg.png" :> <<"b", "g", ".", "p", "n", "g">>)
    @@ ("#fff" :> <<"#", "f", "f", "f">>)
    @@ ("sky" :> <<"s", "k", "y">>)

\* config.BACKGROUND_MAP: the preset names; each maps to its asset
\* images/wallpapers/<name>.jpg under the package directory.
BACKGROUND_MAP == {"default-wallpaper-1", "default-wallpaper-2"}

\* A path: a string as given (relative to the working directory), or a preset's asset.
UserPath(str) == [root |-> "cwd", name |-> str]
AssetPath(name) == [root |-> "package", name |-> name]

HexValue ==
    ("0" :> 0) @@ ("1" :> 1) @@ ("2" :> 2) @@ ("3" :> 3) @@ ("4" :> 4) @@
    ("5" :> 5) @@ ("6" :> 6) @@ ("7" :> 7) @@ ("8" :> 8) @@ ("9" :> 9) @@
    ("a" :> 10) @@ ("b" :> 11) @@ ("c" :> 12) @@ ("d" :> 13) @@ ("e" :> 14) @@
    ("f" :> 15) @@ ("A" :> 10) @@ ("B" :> 11) @@ ("C" :> 12) @@ ("D" :> 13) @@
    ("E" :> 14) @@ ("F" :> 15)

\* str.lstrip("#")
RECURSIVE Lstrip(_)
Lstrip(str) == IF Len(str) > 0 /\ Head(str) = "#" THEN Lstrip(Tail(str)) ELSE str

\* str[i:i+2] with 0-based i: Python clamps a slice to the string
Slice2(str, i) == SubSeq(str, Min(i + 1, Len(str) + 1), Min(i + 2, Len(str)))

\* int(str, 16) of a slice of digits, letters, "#", "." or "/": -1 stands for
\* the ValueError of an empty string or a character that is no hex digit.
RECURSIVE IntBase16(_)
IntBase16(str) ==
    IF Len(str) = 0 THEN -1
    ELSE LET last == str[Len(str)]
             front == SubSeq(str, 1, Len(str) - 1)
         IN  IF last \notin DOMAIN HexValue THEN -1
             ELSE IF Len(str) = 1 THEN HexValue[last]
             ELSE LET high == IntBase16(front)
                  IN  IF high = -1 THEN -1 ELSE high * 16 + HexValue[last]

\* hex_to_rgb: the triple, or a ValueError
hex_to_rgb(hex_color) ==
    LET stripped == Lstrip(hex_color)
        rgb == <<IntBase16(Slice2(stripped, 0)), IntBase16(Slice2(stripped, 2)),
                 IntBase16(Slice2(stripped, 4))>>
    IN  IF \E i \in 1..3 : rgb[i] = -1
        THEN [error |-> "ValueError", rgb |-> <<>>]
        ELSE [error |-> "none", rgb |-> rgb]

is_hex_color(hex_color) ==
    (Len(hex_color) > 0 /\ Head(hex_color) = "#" /\ Len(hex_color) = 7)
        \/ Len(hex_color) = 6

\* A slip: the preset looked up before the path as given.
get_wallpaper_path_preset_first(str, fs) ==
    IF str \in BACKGROUND_MAP /\ AssetPath(str) \in fs.exist THEN AssetPath(str)
    ELSE IF UserPath(str) \in fs.exist THEN UserPath(str)
    ELSE None

get_wallpaper_path(str, fs) ==
    IF UserPath(str) \in fs.exist THEN UserPath(str)
    ELSE IF str \in BACKGROUND_MAP /\ AssetPath(str) \in fs.exist THEN AssetPath(str)
    ELSE None

\* create_background with an RGB tuple: a solid canvas, or a ValueError
create_background(size, color) ==
    IF Len(color) # 3 \/ \E i \in 1..Len(color) : ~(0 <= color[i] /\ color[i] <= 255)
    THEN [error |-> "ValueError", frame |-> None]
    ELSE [error |-> "none", frame |-> [kind |-> "color", rgb |-> color, size |-> size]]

\* enhance(), line 209: the string matched nothing
UnmatchedString(size) == create_background(size, <<255, 255, 255>>)

\* enhance(), lines 202-213.  cv2.imread gives None for a file that is no image,
\* and cv2.resize then raises.
ResolveBackground(bg, fs, size) ==
    IF bg.type = "str" THEN
        LET path == get_wallpaper_path(bg.str, fs)
        IN  IF path # None THEN
                IF path \in fs.images
                THEN [error |-> "none",
                      frame |-> [kind |-> "image", path |-> path, size |-> size]]
                ELSE [error |-> "cv2.error", frame |-> None]
            ELSE IF is_hex_color(Chars[bg.str]) THEN
                LET parsed == hex_to_rgb(Chars[bg.str])
                IN  IF parsed.error # "none"
                    THEN [error |-> parsed.error, frame |-> None]
                    ELSE create_background(size, parsed.rgb)
            ELSE UnmatchedString(size)
    ELSE IF bg.type = "tuple" /\ Len(bg.tuple) = 3 THEN create_background(size, bg.tuple)
    ELSE [error |-> "ValueError", frame |-> None]

\* ------------------------------------------------------------ mouse events
\* A move event is [time, x, y]: the time in frame periods, x and y in hundredths
\* of the capture surface.  A loaded log is [has_move, move]: whether the JSON
\* object has a "move" key, and its list.

\* mouse_events.get("move", [])
Moves(events) == IF events.has_move THEN events.move ELSE <<>>

\* A slip: the event must lie strictly before the frame's time.
RECURSIVE ScanReversedStrict(_, _, _)
ScanReversedStrict(moves, i, time) ==
    IF i = 0 THEN 0
    ELSE IF moves[i].time < time THEN i
    ELSE ScanReversedStrict(moves, i - 1, time)

\* next((event for event in reversed(moves) if event["time"] <= current_time), None)
\* from position i down: the index of the event, 0 for None.
RECURSIVE ScanReversed(_, _, _)
ScanReversed(moves, i, time) ==
    IF i = 0 THEN 0
    ELSE IF moves[i].time <= time THEN i
    ELSE ScanReversed(moves, i - 1, time)

LatestMouseEvent(events, time) == ScanReversed(Moves(events), Len(Moves(events)), time)

\* A slip: the first event's time is not read, the run starts at time 0.
StartTimeZero(events) == IF events.has_move /\ Len(events.move) = 0 THEN -1 ELSE 0

\* mouse_events.get("move", [{}])[0].get("time", 0); -1 stands for the IndexError
\* of an empty "move" list.
StartTime(events) ==
    IF ~events.has_move THEN 0
    ELSE IF Len(events.move) = 0 THEN -1
    ELSE events.move[1].time

\* int(event["x"] * screen_width) - record_region["left"], likewise y
CursorCoord(fraction, screen_dim, origin) == Trunc(fraction * screen_dim, 100) - origin

\* ------------------------------------------------------------------- cursor
\* A slip: the test against the frame's height is missing.
OutsideFrameNoBottom(x_offset, y_offset, frame_width, frame_height) ==
    x_offset < 0 \/ x_offset > frame_width \/ y_offset < 0

\* render_cursor, line 127: the position lies outside the frame
OutsideFrame(x_offset, y_offset, frame_width, frame_height) ==
    x_offset < 0 \/ x_offset > frame_width \/ y_offset < 0 \/ y_offset > frame_height

\* What render_cursor does to a frame of the run, pixels aside: it raises for a
\* sprite without alpha channel, leaves the frame alone outside it, draws inside.
\* With the position on the right or bottom edge the clipped region is empty and
\* OpenCV is handed empty arrays: it may raise or do nothing.
CursorEffects(channels, x_offset, y_offset, frame_width, frame_height) ==
    IF channels # 4 THEN {"ValueError"}
    ELSE IF OutsideFrame(x_offset, y_offset, frame_width, frame_height) THEN {"noop"}
    ELSE IF x_offset = frame_width \/ y_offset = frame_height THEN {"noop", "cv2.error"}
    ELSE {"drawn"}

\* config.CURSOR_SCALE, in hundredths
CURSOR_SCALE == 30

\* int(cursor_image.shape[i] * scale * config.CURSOR_SCALE), scale in tenths
ScaledSize(dim, scale) == Trunc(dim * scale * CURSOR_SCALE, 1000)

\* One channel of one pixel of cv2.add(bitwise_and(cursor_rgb, cursor_rgb, mask),
\* bitwise_and(roi, roi, bitwise_not(mask))): the sprite's value is kept where
\* its alpha is not 0, the frame's where it is not 255, and the sum saturates.
Blend(cursor_value, alpha, frame_value) ==
    Min(255, (IF alpha # 0 THEN cursor_value ELSE 0)
             + (IF alpha # 255 THEN frame_value ELSE 0))

\* render_cursor, pixel by pixel, as the set of its possible outcomes.  A frame is
\* [width, height, pix] with pix[<<row, column>>] counted from 1; a sprite is
\* [channels, width, height, value, alpha], of one colour and one alpha.  The
\* frame is drawn in place: the outcome's frame is what the caller's has become.
render_cursor(f, sprite, x_offset, y_offset, scale) ==
    IF sprite.channels # 4 THEN {[error |-> "ValueError", frame |-> f]}
    ELSE IF OutsideFrame(x_offset, y_offset, f.width, f.height)
    THEN {[error |-> "none", frame |-> f]}
    ELSE
        LET cursor_width == IF scale > 0 THEN ScaledSize(sprite.width, scale)
                            ELSE sprite.width
            cursor_height == IF scale > 0 THEN ScaledSize(sprite.height, scale)
                             ELSE sprite.height
            x_end == Min(x_offset + cursor_width, f.width)
            y_end == Min(y_offset + cursor_height, f.height)
        IN  IF scale > 0 /\ (cursor_width <= 0 \/ cursor_height <= 0)
            THEN {[error |-> "cv2.error", frame |-> f]}
            ELSE IF x_end <= x_offset \/ y_end <= y_offset
            THEN {[error |-> "none", frame |-> f], [error |-> "cv2.error", frame |-> f]}
            ELSE {[error |-> "none",
                   frame |-> [f EXCEPT !.pix =
                       [rc \in DOMAIN f.pix |->
                           IF /\ rc[1] > y_offset /\ rc[1] <= y_end
                              /\ rc[2] > x_offset /\ rc[2] <= x_end
                           THEN Blend(sprite.value, sprite.alpha, f.pix[rc])
                           ELSE f.pix[rc]]]]}

\* -------------------------------------------------------------------- cache
\* A slip: the key leaves the shadow's opacity out.
get_cache_key_no_opacity(x_offset, y_offset, radius, shadow_blur, shadow_opacity) ==
    <<x_offset, y_offset, radius, shadow_blur, 0>>

\* An image object is [id, size, pix]: its identity, its <<width, height>> and
\* what was drawn into it.  Equal pix and size mean identical pixels.
get_cache_key(x_offset, y_offset, radius, shadow_blur, shadow_opacity) ==
    <<x_offset, y_offset, radius, shadow_blur, shadow_opacity>>

\* A slip: the "not in" test is missing, every call stores a new image.
CacheStoreAlways(table, key, image) == (key :> image) @@ table

\* if cache_key not in cache.mask: cache.mask[cache_key] = ..., likewise the
\* shadow: an image is stored only under a key the table does not hold yet.
CacheStore(table, key, image) ==
    IF key \in DOMAIN table THEN table ELSE table @@ (key :> image)

\* apply_border_radius_with_shadow, lines 93-118.  shadow_opacity is in hundredths.
\* putalpha raises when the mask is not of the foreground's size, alpha_composite
\* when the shadow is not of the background's.
Composite(masks, shadows, id, bg_size, fg_size, x_offset, y_offset, radius, shadow_blur, shadow_opacity) ==
    LET key == get_cache_key(x_offset, y_offset, radius, shadow_blur, shadow_opacity)
        mask_made == radius <= 0 \/ key \notin DOMAIN masks
        new_mask == [id |-> id, size |-> fg_size,
                     pix |-> IF radius > 0 THEN [shape |-> "rounded", radius |-> radius]
                             ELSE [shape |-> "opaque", radius |-> 0]]
        masks1 == IF radius > 0 THEN CacheStore(masks, key, new_mask) ELSE masks
        mask == IF radius > 0 THEN masks1[key] ELSE new_mask
        id1 == IF mask_made THEN id + 1 ELSE id
        shadow_made == shadow_blur <= 0 \/ key \notin DOMAIN shadows
        new_shadow ==
            [id |-> id1, size |-> bg_size,
             pix |-> IF shadow_blur > 0
                     THEN [shape |-> "shadow",
                           rect |-> <<x_offset, y_offset,
                                      x_offset + fg_size[1], y_offset + fg_size[2]>>,
                           radius |-> radius,
                           alpha |-> Trunc(255 * shadow_opacity, 100),
                           blur |-> shadow_blur]
                     ELSE [shape |-> "transparent"]]
        shadows1 == IF shadow_blur > 0 THEN CacheStore(shadows, key, new_shadow)
                    ELSE shadows
        shadow == IF shadow_blur > 0 THEN shadows1[key] ELSE new_shadow
        id2 == IF shadow_made THEN id1 + 1 ELSE id1
    IN  IF mask.size # fg_size
        THEN [error |-> "ValueError", cache_mask |-> masks1, cache_shadow |-> shadows,
              next_id |-> id1, mask |-> mask, shadow |-> None, size |-> None]
        ELSE IF shadow.size # bg_size
        THEN [error |-> "ValueError", cache_mask |-> masks1, cache_shadow |-> shadows1,
              next_id |-> id2, mask |-> mask, shadow |-> shadow, size |-> None]
        ELSE [error |-> "none", cache_mask |-> masks1, cache_shadow |-> shadows1,
              next_id |-> id2, mask |-> mask, shadow |-> shadow, size |-> bg_size]

\* ------------------------------------------------------- geometry harness
Dims == [orig_width : 1..MaxOrig, orig_height : 1..MaxOrig,
         screen_width : 1..MaxCanvas, screen_height : 1..MaxCanvas]

GeomIdle == dims = None /\ plan = None /\ prev_plan = None
BackgroundIdle == background = None /\ files = None /\ background_frame = None
CacheEmpty == cache_mask = <<>> /\ cache_shadow = <<>> /\ next_id = 1
PickIdle == mouse_events = None /\ current_time = 0 /\ latest_mouse_event = 0
CallsIdle ==
    /\ calls = <<>> /\ frame = None /\ cursor_image = None /\ cursor_args = None
    /\ rendered = None
RunIdle ==
    /\ pc = "idle" /\ params = None /\ cap = "none" /\ out = "none"
    /\ out_size = None /\ geom = None /\ frame_count = 0 /\ start_time = 0
    /\ written = <<>>

InitGeom ==
    /\ dims \in Dims
    /\ plan = None
    /\ prev_plan = None
    /\ error = "none"
    /\ BackgroundIdle /\ CacheEmpty /\ PickIdle /\ RunIdle /\ CallsIdle

\* enhance() plans the geometry of one run with the given padding.
Plan(padding) ==
    /\ prev_plan = None
    /\ plan' = [padding |-> padding,
                geom |-> PlanGeometry(dims.orig_width, dims.orig_height,
                                      dims.screen_width, dims.screen_height, padding)]
    /\ prev_plan' = plan
    /\ UNCHANGED <<callVars, dims, error, bgVars, cacheVars, pickVars, runVars>>

NextGeom == \E padding \in Paddings : Plan(padding)

SpecGeom == InitGeom /\ [][NextGeom]_vars

\* ----------------------------------------------------- background harness
BackgroundStrings == DOMAIN Chars \ {"default-wallpaper-2"}
BackgroundTuples == {<<255, 255, 255>>, <<0, 128, 256>>, <<1, 2>>}
BackgroundInputs ==
    [type : {"str"}, str : BackgroundStrings]
        \cup [type : {"tuple"}, tuple : BackgroundTuples]
        \cup {[type |-> "other"]}

\* The files that may exist: some of the strings as paths, and the presets' assets.
CandidateFiles ==
    {UserPath("default-wallpaper-1"), UserPath("bg.png"), UserPath("00Ff7f"),
     AssetPath("default-wallpaper-1"), AssetPath("default-wallpaper-2")}
FileSystems ==
    {[exist |-> e, images |-> e \ b] :
        e \in SUBSET CandidateFiles, b \in SUBSET {UserPath("bg.png")}}

CanvasSize == <<dims.screen_width, dims.screen_height>>

InitBackground ==
    /\ dims \in {d \in Dims : d.orig_width = 1 /\ d.orig_height = 1
                                /\ d.screen_width = MaxCanvas /\ d.screen_height = 1}
    /\ plan = None /\ prev_plan = None
    /\ background \in BackgroundInputs
    /\ files \in FileSystems
    /\ background_frame = None
    /\ error = "none"
    /\ CacheEmpty /\ PickIdle /\ RunIdle /\ CallsIdle

\* enhance() resolves the background parameter into the run's canvas.
Resolve ==
    /\ background_frame = None /\ error = "none"
    /\ LET r == ResolveBackground(background, files, CanvasSize)
       IN  /\ background_frame' = r.frame
           /\ error' = r.error
    /\ UNCHANGED <<callVars, background, files, geomVars, cacheVars, pickVars, runVars>>

NextBackground == Resolve

SpecBackground == InitBackground /\ [][NextBackground]_vars

\* ----------------------------------------------------- background claims
Resolved == background_frame # None \/ error # "none"
IsFilePath(str) == UserPath(str) \in files.exist
IsPresetWithAsset(str) == str \in BACKGROUND_MAP /\ AssetPath(str) \in files.exist
\* six hex digits, with or without a leading "#"
IsHexDigits(chars) == \A i \in 1..Len(chars) : chars[i] \in DOMAIN HexValue
ParsesAsHex(str) ==
    \/ Len(Chars[str]) = 6 /\ IsHexDigits(Chars[str])
    \/ Len(Chars[str]) = 7 /\ Head(Chars[str]) = "#" /\ IsHexDigits(Tail(Chars[str]))
HexShaped(str) ==
    Len(Chars[str]) = 6 \/ (Len(Chars[str]) = 7 /\ Head(Chars[str]) = "#")
White == [kind |-> "color", rgb |-> <<255, 255, 255>>, size |-> CanvasSize]

LogWithoutMoves == [has_move |-> FALSE, move |-> <<>>]
LogEmptyMoves == [has_move |-> TRUE, move |-> <<>>]
LogThreeMoves ==
    [has_move |-> TRUE,
     move |-> <<[time |-> 0, x |-> 50, y |-> 50], [time |-> 1, x |-> 0, y |-> 0],
                [time |-> 3, x |-> 100, y |-> 100]>>]
LogLateMove == [has_move |-> TRUE, move |-> <<[time |-> 2, x |-> 25, y |-> 25]>>]

\* data_path: None, a path that is no file, a file that cannot be read as JSON,
\* or a file holding a log.
DataFiles ==
    {[kind |-> "none"], [kind |-> "missing"], [kind |-> "unreadable"]}
        \cup [kind : {"file"},
              content : {LogWithoutMoves, LogEmptyMoves, LogThreeMoves, LogLateMove}]

RunParams ==
    [data : DataFiles,
     video_ok : BOOLEAN,
     n_frames : 0..MaxFrames,
     padding : {[isFloat |-> FALSE, num |-> 0], [isFloat |-> TRUE, num |-> 1],
                [isFloat |-> TRUE, num |-> PadDen]},
     output_raw : BOOLEAN,
     macos_titlebar : BOOLEAN,
     cursor_channels : {3, 4},
     region : {[left |-> 0, top |-> 0], [left |-> 1, top |-> 1]},
     border_radius : {0, 1},
     shadow_blur : {0, 1},
     shadow_opacity : {50}]

RunDims ==
    {d \in Dims : /\ d.orig_width = 2 /\ d.orig_height = 2
                  /\ d.screen_width \in {3, MaxCanvas}
                  /\ d.screen_height = d.screen_width}

RunBackgrounds ==
    {[type |-> "str", str |-> "default-wallpaper-1"],
     [type |-> "tuple", tuple |-> <<255, 255, 255>>],
     [type |-> "other"]}

\* The package's assets are installed; the working directory holds no image.
PackageFiles ==
    [exist |-> {AssetPath(n) : n \in BACKGROUND_MAP},
     images |-> {AssetPath(n) : n \in BACKGROUND_MAP}]

Init ==
    /\ dims \in RunDims
    /\ plan = None /\ prev_plan = None
    /\ background \in RunBackgrounds
    /\ files = PackageFiles
    /\ background_frame = None
    /\ error = "none"
    /\ CacheEmpty /\ CallsIdle
    /\ pc = "load_events"
    /\ params \in RunParams
    /\ mouse_events = None
    /\ cap = "none" /\ out = "none" /\ out_size = None
    /\ geom = None
    /\ frame_count = 0 /\ start_time = 0
    /\ current_time = 0 /\ latest_mouse_event = 0
    /\ written = <<>>

\* An exception leaves enhance(): nothing after the raising line runs.
Raise(e) == pc' = "failed" /\ error' = e

\* lines 175-178: the mouse log is loaded when data_path names a file
LoadMouseEvents ==
    /\ pc = "load_events"
    /\ IF params.data.kind \in {"none", "missing"}
       THEN mouse_events' = LogWithoutMoves /\ pc' = "open_capture" /\ UNCHANGED error
       ELSE IF params.data.kind = "unreadable"
       THEN Raise("JSONDecodeError") /\ UNCHANGED mouse_events
       ELSE /\ mouse_events' = params.data.content
            /\ pc' = "open_capture" /\ UNCHANGED error
    /\ UNCHANGED <<callVars, geomVars, bgVars, cacheVars, params, cap, out, out_size, geom,
                   frame_count, start_time, current_time, latest_mouse_event, written>>

\* lines 180-187: the input reader is opened
OpenCapture ==
    /\ pc = "open_capture"
    /\ IF params.video_ok
       THEN cap' = "open" /\ pc' = "plan" /\ UNCHANGED error
       ELSE Raise("ValueError") /\ UNCHANGED cap
    /\ UNCHANGED <<callVars, geomVars, bgVars, cacheVars, pickVars, params, out, out_size, geom,
                   frame_count, start_time, written>>

\* line 200: cv2.VideoWriter(output_path, fourcc, fps, (screen_width, screen_height))
WriterSize(screen_width, screen_height, g, output_raw) == <<screen_width, screen_height>>

\* lines 189-200: the geometry is planned and the output writer opened
PlanAndOpenWriter ==
    /\ pc = "plan"
    /\ LET g == PlanGeometry(dims.orig_width, dims.orig_height,
                             dims.screen_width, dims.screen_height, params.padding)
       IN  /\ geom' = g
           /\ out_size' = WriterSize(dims.screen_width, dims.screen_height, g,
                                     params.output_raw)
    /\ out' = "open"
    /\ pc' = "resolve_background"
    /\ UNCHANGED <<callVars, geomVars, bgVars, cacheVars, pickVars, error, params, cap,
                   frame_count, start_time, written>>

\* lines 202-213: the background is resolved
ResolveRunBackground ==
    /\ pc = "resolve_background"
    /\ LET r == ResolveBackground(background, files, CanvasSize)
       IN  IF r.error # "none"
           THEN Raise(r.error) /\ UNCHANGED background_frame
           ELSE background_frame' = r.frame /\ pc' = "start_loop" /\ UNCHANGED error
    /\ UNCHANGED <<callVars, geomVars, background, files, cacheVars, pickVars, params, cap, out,
                   out_size, geom, frame_count, start_time, written>>

\* lines 215-218: the cursor sprite is read, frame_count and start_time are set
StartLoop ==
    /\ pc = "start_loop"
    /\ frame_count' = 0
    /\ IF StartTime(mouse_events) = -1
       THEN Raise("IndexError") /\ UNCHANGED start_time
       ELSE start_time' = StartTime(mouse_events) /\ pc' = "loop" /\ UNCHANGED error
    /\ UNCHANGED <<callVars, geomVars, bgVars, cacheVars, pickVars, params, cap, out, out_size,
                   geom, written>>

\* A slip: the frame's time taken after the count has advanced.
FrameTimeAfterCount(start, count) == start + count + 1

\* line 231: current_time = start_time + (frame_count / fps), in frame periods
FrameTime(start, count) == start + count

\* A frame as handed to the writer.
RawFrame == 
    [index |-> frame_count, size |-> <<geom.new_width, geom.new_height>>,
     titlebar |-> FALSE, cursor |-> "none", event |-> 0, composited |-> FALSE]
CompositedFrame(effect, event, size) ==
    [index |-> frame_count, size |-> size, titlebar |-> params.macos_titlebar,
     cursor |-> effect, event |-> event, composited |-> TRUE]

\* lines 221-255: one iteration of the loop, on the next frame of the input
FrameStep ==
    /\ pc = "loop"
    /\ frame_count < params.n_frames
    /\ IF geom.new_width <= 0 \/ geom.new_height <= 0
       THEN \* cv2.resize raises for an empty size
            /\ Raise("cv2.error")
            /\ UNCHANGED <<cacheVars, current_time, latest_mouse_event, frame_count,
                           written>>
       ELSE IF params.output_raw
       THEN /\ written' = Append(written, RawFrame)
            /\ frame_count' = frame_count + 1
            /\ UNCHANGED <<cacheVars, current_time, latest_mouse_event, pc, error>>
       ELSE LET time == FrameTime(start_time, frame_count)
                event == LatestMouseEvent(mouse_events, time)
                effects ==
                    IF event = 0 THEN {"none"}
                    ELSE CursorEffects(
                            params.cursor_channels,
                            CursorCoord(mouse_events.move[event].x, dims.screen_width,
                                        params.region.left),
                            CursorCoord(mouse_events.move[event].y, dims.screen_height,
                                        params.region.top),
                            geom.new_width, geom.new_height)
                c == Composite(cache_mask, cache_shadow, next_id, CanvasSize,
                               <<geom.new_width, geom.new_height>>,
                               geom.x_offset, geom.y_offset, params.border_radius,
                               params.shadow_blur, params.shadow_opacity)
            IN  /\ current_time' = time
                /\ latest_mouse_event' = event
                /\ \E effect \in effects :
                      IF effect \in {"ValueError", "cv2.error"}
                      THEN /\ Raise(effect)
                           /\ UNCHANGED <<cacheVars, frame_count, written>>
                      ELSE /\ cache_mask' = c.cache_mask
                           /\ cache_shadow' = c.cache_shadow
                           /\ next_id' = c.next_id
                           /\ IF c.error # "none"
                              THEN Raise(c.error) /\ UNCHANGED <<frame_count, written>>
                              ELSE /\ written' = Append(written,
                                                        CompositedFrame(effect, event, c.size))
                                   /\ frame_count' = frame_count + 1
                                   /\ UNCHANGED <<pc, error>>
    /\ UNCHANGED <<callVars, geomVars, bgVars, mouse_events, params, cap, out, out_size, geom,
                   start_time>>

\* lines 222-224 and 257-261: the input is exhausted, both handles are released
EndOfStream ==
    /\ pc = "loop"
    /\ frame_count = params.n_frames
    /\ cap' = "released"
    /\ out' = "released"
    /\ pc' = "done"
    /\ UNCHANGED <<callVars, geomVars, bgVars, cacheVars, pickVars, error, params, out_size,
                   geom, frame_count, start_time, written>>

Next ==
    \/ LoadMouseEvents
    \/ OpenCapture
    \/ PlanAndOpenWriter
    \/ ResolveRunBackground
    \/ StartLoop
    \/ FrameStep
    \/ EndOfStream

Spec == Init /\ [][Next]_vars

\* The run is one thread of control: while a line of enhance() can run, it does.
SpecFair == Spec /\ WF_vars(Next)

\* ------------------------------------------- the cursor's event, per frame
\* Time-ordered move sequences of at most MaxMoves events, times 0..MaxTime.
RECURSIVE OrderedMoves(_)
OrderedMoves(n) ==
    IF n = 0 THEN {<<>>}
    ELSE LET shorter == OrderedMoves(n - 1)
         IN  shorter \cup
             {Append(m, [time |-> t, x |-> 50, y |-> 50]) :
                 m \in {q \in shorter : Len(q) = n - 1},
                 t \in 0..MaxTime}
TimeOrdered(moves) ==
    \A i \in 1..Len(moves) : \A j \in i..Len(moves) : moves[i].time <= moves[j].time

PickParams ==
    [data |-> [kind |-> "none"], video_ok |-> TRUE, n_frames |-> 1,
     padding |-> [isFloat |-> FALSE, num |-> 0], output_raw |-> FALSE,
     macos_titlebar |-> FALSE, cursor_channels |-> 4,
     region |-> [left |-> 1, top |-> 1], border_radius |-> 0, shadow_blur |-> 0,
     shadow_opacity |-> 50]

\* One frame of a run, at any frame time, before its cursor is placed.
InitPick ==
    /\ dims \in {d \in RunDims : d.screen_width = MaxCanvas}
    /\ plan = None /\ prev_plan = None
    /\ BackgroundIdle /\ CacheEmpty /\ CallsIdle
    /\ error = "none"
    /\ pc = "pick"
    /\ params = PickParams
    /\ mouse_events \in [has_move : {TRUE},
                          move : {m \in OrderedMoves(MaxMoves) : TimeOrdered(m)}]
    /\ current_time \in (-1)..(MaxTime + 1)
    /\ latest_mouse_event = 0
    /\ cap = "open" /\ out = "open"
    /\ out_size = <<dims.screen_width, dims.screen_height>>
    /\ geom = PlanGeometry(dims.orig_width, dims.orig_height,
                           dims.screen_width, dims.screen_height, params.padding)
    /\ frame_count = 0 /\ start_time = 0
    /\ written = <<>>

\* lines 235-241: the frame's event is chosen and, if there is one, the cursor
\* rendered at its position.
PickEvent ==
    /\ pc = "pick"
    /\ LET event == LatestMouseEvent(mouse_events, current_time)
           effects ==
               IF event = 0 THEN {"none"}
               ELSE CursorEffects(
                       params.cursor_channels,
                       CursorCoord(mouse_events.move[event].x, dims.screen_width,
                                   params.region.left),
                       CursorCoord(mouse_events.move[event].y, dims.screen_height,
                                   params.region.top),
                       geom.new_width, geom.new_height)
       IN  /\ latest_mouse_event' = event
           /\ \E effect \in effects :
                 written' = <<CompositedFrame(effect, event, CanvasSize)>>
    /\ pc' = "picked"
    /\ UNCHANGED <<callVars, geomVars, bgVars, cacheVars, error, params, mouse_events,
                   current_time, cap, out, out_size, geom, frame_count, start_time>>

NextPick == PickEvent

SpecPick == InitPick /\ [][NextPick]_vars

\* The events at or before the frame's time.
NotAfter(time) ==
    {i \in 1..Len(mouse_events.move) : mouse_events.move[i].time <= time}

\* C2: the event chosen for a frame is the last event of the time-ordered move
\* sequence whose time <= currentTime; when no event has time <= currentTime no
\* event is chosen and no cursor is drawn on the frame.
C2_LatestEventChosen ==
    pc = "picked" =>
        /\ \A i \in NotAfter(current_time) :
              /\ latest_mouse_event # 0
              /\ latest_mouse_event \in NotAfter(current_time)
              /\ i <= latest_mouse_event
        /\ NotAfter(current_time) = {} =>
              /\ latest_mouse_event = 0
              /\ written[1].cursor = "none"
        /\ latest_mouse_event # 0 => written[1].cursor = "drawn"

\* The spec's example: moves at 0, 1 and 3 and a frame at time 2 choose the move
\* at 1 and draw the cursor.
C2_Witness ==
    /\ pc = "picked"
    /\ Len(mouse_events.move) = 3
    /\ mouse_events.move[1].time = 0
    /\ mouse_events.move[2].time = 1
    /\ mouse_events.move[3].time = 3
    /\ current_time = 2
    /\ latest_mouse_event = 2
    /\ written[1].cursor = "drawn"

\* ----------------------------------------------------- compositing harness
\* Calls of apply_border_radius_with_shadow as runs of enhance() make them, one
\* process and one cache: the canvas and the content size of a run with padding
\* 0, and the run's corner radius, blur and opacity.
CacheRunDims ==
    { [orig_width |-> 1, orig_height |-> 1, screen_width |-> 2, screen_height |-> 2],
      [orig_width |-> 2, orig_height |-> 2, screen_width |-> 3, screen_height |-> 3],
      [orig_width |-> 1, orig_height |-> 1, screen_width |-> 3, screen_height |-> 3],
      [orig_width |-> 1, orig_height |-> 2, screen_width |-> 3, screen_height |-> 2] }

CacheStyles == [radius : {0, 1}, shadow_blur : {0, 1}, shadow_opacity : {0, 50}]

InitCache ==
    /\ GeomIdle /\ BackgroundIdle /\ CacheEmpty /\ PickIdle /\ RunIdle /\ CallsIdle
    /\ error = "none"
    /\ pc = "idle"

CompositeCall ==
    \E d \in CacheRunDims, style \in CacheStyles :
        LET g == PlanGeometry(d.orig_width, d.orig_height, d.screen_width,
                              d.screen_height, [isFloat |-> FALSE, num |-> 0])
            bg_size == <<d.screen_width, d.screen_height>>
            fg_size == <<g.new_width, g.new_height>>
            c == Composite(cache_mask, cache_shadow, next_id, bg_size, fg_size,
                           g.x_offset, g.y_offset, style.radius, style.shadow_blur,
                           style.shadow_opacity)
        IN  /\ Len(calls) < MaxCalls
            /\ cache_mask' = c.cache_mask
            /\ cache_shadow' = c.cache_shadow
            /\ next_id' = c.next_id
            /\ calls' = Append(calls,
                   [x_offset |-> g.x_offset, y_offset |-> g.y_offset,
                    radius |-> style.radius, shadow_blur |-> style.shadow_blur,
                    shadow_opacity |-> style.shadow_opacity,
                    fg_size |-> fg_size, bg_size |-> bg_size,
                    mask |-> c.mask, shadow |-> c.shadow, error |-> c.error])
            /\ UNCHANGED <<geomVars, bgVars, pickVars, runVars, error, frame,
                           cursor_image, cursor_args, rendered>>

NextCache == CompositeCall

SpecCache == InitCache /\ [][NextCache]_vars

\* ---------------------------------------------------------- cursor harness
\* The frame whose pixels all differ, so that a moved or altered pixel shows.
Frames ==
    { [width |-> w, height |-> h,
       pix |-> [rc \in (1..h) \X (1..w) |-> 10 * rc[1] + rc[2]]] :
      w \in 1..MaxFrameDim, h \in 1..MaxFrameDim }

Sprites == [channels : {3, 4}, width : {4}, height : {4}, value : {50, 250},
            alpha : {0, 128, 255}]

\* scale is in tenths: none, 0.5 (the sprite scales to nothing), 1.0, 2.0
CursorArgs == [x_offset : (-1)..(MaxFrameDim + 1), y_offset : (-1)..(MaxFrameDim + 1),
               scale : {0, 5, 10, 20}]

InitCursor ==
    /\ GeomIdle /\ BackgroundIdle /\ CacheEmpty /\ PickIdle /\ RunIdle
    /\ calls = <<>>
    /\ error = "none"
    /\ pc = "idle"
    /\ frame \in Frames
    /\ cursor_image \in Sprites
    /\ cursor_args \in CursorArgs
    /\ rendered = None

RenderCursor ==
    /\ frame # None /\ rendered = None
    /\ rendered' \in render_cursor(frame, cursor_image, cursor_args.x_offset,
                                   cursor_args.y_offset, cursor_args.scale)
    /\ UNCHANGED <<geomVars, bgVars, cacheVars, pickVars, runVars, error, calls,
                   frame, cursor_image, cursor_args>>

NextCursor == RenderCursor

SpecCursor == InitCursor /\ [][NextCursor]_vars

\* ------------------------------------------------------------- run claims
Terminated == pc \in {"done", "failed"}

\* C4: when a run of enhance() ends, by the end of the input or by a fatal
\* error, the input reader and the output writer it acquired have been released.
C4_AsStated == Terminated => (cap # "open" /\ out # "open")

\* The mouse log is absent, missing, unreadable, or has no moves.
EmptyLog ==
    \/ params.data.kind \in {"none", "missing", "unreadable"}
    \/ Len(params.data.content.move) = 0

\* C6: with the mouse log absent, missing, unreadable or without moves, the run
\* raises no error over the log, its startTime is 0 and no frame gets a cursor.
C6_AsStated ==
    (pc # "idle" /\ EmptyLog) =>
        /\ error \notin {"JSONDecodeError", "IndexError"}
        /\ start_time = 0
        /\ \A i \in 1..Len(written) : written[i].cursor = "none"

\* C8: the writer is opened with the canvas size, or with the content size when
\* outputRaw is set; every frame handed to it has that size; a raw frame is the
\* resized input frame, without title bar, cursor or compositing.
C8_AsStated ==
    (pc \notin {"idle", "pick", "picked"} /\ out_size # None) =>
        /\ out_size = IF params.output_raw THEN <<geom.new_width, geom.new_height>>
                      ELSE <<dims.screen_width, dims.screen_height>>
        /\ \A i \in 1..Len(written) :
              /\ written[i].size = out_size
              /\ params.output_raw =>
                    /\ ~written[i].titlebar
                    /\ written[i].cursor = "none"
                    /\ ~written[i].composited

\* ------------------------------------------------------- geometry claims
\* The slack of each axis, as the claims define it.
SlackX == Max(0, dims.screen_width - dims.orig_width)
SlackY == Max(0, dims.screen_height - dims.orig_height)
DrivingCanvasDim == IF SlackX <= SlackY THEN dims.screen_width ELSE dims.screen_height
DrivingPadding(p) == IF SlackX <= SlackY THEN p.geom.padding_x ELSE p.geom.padding_y
OtherPadding(p) == IF SlackX <= SlackY THEN p.geom.padding_y ELSE p.geom.padding_x
DrivingOrig == IF SlackX <= SlackY THEN dims.orig_width ELSE dims.orig_height
OtherOrig == IF SlackX <= SlackY THEN dims.orig_height ELSE dims.orig_width
PaddingDen(padding) == IF padding.isFloat THEN PadDen ELSE 1

\* C1: every planned geometry has contentWidth <= canvasWidth - 2*paddingX,
\* contentHeight <= canvasHeight - 2*paddingY, contentWidth <= origWidth and
\* contentHeight <= origHeight.
C1_ContentFits ==
    plan # None =>
        /\ plan.geom.new_width <= dims.screen_width - 2 * plan.geom.padding_x
        /\ plan.geom.new_height <= dims.screen_height - 2 * plan.geom.padding_y
        /\ plan.geom.new_width <= dims.orig_width
        /\ plan.geom.new_height <= dims.orig_height

\* A plan with a positive padding whose width is cut by the canvas (below the
\* capture's) and whose height is the capture's own.
C1_Witness ==
    /\ plan # None
    /\ plan.geom.padding_x > 0
    /\ plan.geom.new_width = dims.screen_width - 2 * plan.geom.padding_x
    /\ plan.geom.new_width > 0
    /\ plan.geom.new_width < dims.orig_width
    /\ plan.geom.new_height = dims.orig_height
    /\ plan.geom.new_height < dims.screen_height - 2 * plan.geom.padding_y

\* C9 as stated: the axis with the smaller slack drives (the width on a tie); its
\* padding is padding*canvasDim when the padding's value lies in [0,1] and the
\* literal pixel value (its whole pixels) otherwise; the other axis's padding is
\* paddingDriving * origOther / origDriving truncated.
C9_AsStated ==
    plan # None =>
        LET p == plan.padding
            den == PaddingDen(p)
        IN  /\ IF 0 <= p.num /\ p.num <= den
               THEN DrivingPadding(plan) * den = p.num * DrivingCanvasDim
               ELSE DrivingPadding(plan) = Trunc(p.num, den)
            /\ OtherPadding(plan) = Trunc(DrivingPadding(plan) * OtherOrig, DrivingOrig)

\* C9 amended: the driving padding is int(padding*canvasDim), truncated toward
\* zero, when the padding is a float in [0,1], and int(padding) otherwise (an
\* integer-typed 0 or 1 is a pixel count); the other axis's padding is
\* int(paddingDriving * origOther / origDriving).
C9_DrivingAxisPadding ==
    plan # None =>
        LET p == plan.padding
        IN  /\ IF p.isFloat /\ 0 <= p.num /\ p.num <= PadDen
               THEN DrivingPadding(plan) = Trunc(p.num * DrivingCanvasDim, PadDen)
               ELSE DrivingPadding(plan) = Trunc(p.num, PaddingDen(p))
            /\ OtherPadding(plan) = Trunc(DrivingPadding(plan) * OtherOrig, DrivingOrig)

\* Equal slacks, a fraction whose product with the canvas width is no integer,
\* and a capture that is not square: the width drives and both paddings show.
C9_Witness ==
    /\ plan # None
    /\ SlackX = SlackY
    /\ dims.orig_width # dims.orig_height
    /\ plan.padding.isFloat /\ 0 < plan.padding.num /\ plan.padding.num < PadDen
    /\ (plan.padding.num * dims.screen_width) % PadDen # 0
    /\ plan.geom.padding_x > 0
    /\ plan.geom.padding_y > 0
    /\ plan.geom.padding_x # plan.geom.padding_y

\* The second plan's padding is the pixel count "p times the driving canvas
\* dimension" of the first plan's fraction p, as a float or as an integer.
InUnitInterval(padding) == padding.isFloat /\ 0 <= padding.num /\ padding.num <= PadDen
LiteralOfFraction ==
    /\ prev_plan # None
    /\ InUnitInterval(prev_plan.padding)
    /\ plan.padding.num * PadDen
         = prev_plan.padding.num * DrivingCanvasDim * PaddingDen(plan.padding)

\* C10 as stated: a fraction p in [0,1] and the literal p * drivingCanvasDim plan
\* the same paddings, content size and offsets.
C10_AsStated ==
    LiteralOfFraction => plan.geom = prev_plan.geom

\* C10 amended: they plan the same geometry unless the literal is itself a float
\* in (0,1], which enhance() reads as a fraction again.
C10_LiteralEqualsFraction ==
    (LiteralOfFraction /\ ~(InUnitInterval(plan.padding) /\ plan.padding.num > 0))
        => plan.geom = prev_plan.geom

\* A fraction strictly between 0 and 1 and its float pixel count above 1, with a
\* positive padding on both plans and content cut by the canvas.
C10_Witness ==
    /\ LiteralOfFraction
    /\ prev_plan.padding.num > 0 /\ prev_plan.padding.num < PadDen
    /\ plan.padding.isFloat /\ plan.padding.num > PadDen
    /\ plan.geom.padding_x > 0
    /\ plan.geom.new_width < dims.orig_width
    /\ plan.geom.x_offset > 0

\* ---------------------------------------------------- compositing claims
SameKey(a, b) ==
    /\ a.x_offset = b.x_offset /\ a.y_offset = b.y_offset /\ a.radius = b.radius
    /\ a.shadow_blur = b.shadow_blur /\ a.shadow_opacity = b.shadow_opacity
SameSizes(a, b) == a.fg_size = b.fg_size /\ a.bg_size = b.bg_size
\* the same object, or images with identical pixels
SameImage(a, b) == a.id = b.id \/ (a.size = b.size /\ a.pix = b.pix)
CallPairs == {p \in (1..Len(calls)) \X (1..Len(calls)) : p[1] < p[2]}

\* C3 as the spec states it: two calls with equal (offsetX, offsetY,
\* cornerRadius, shadowBlur, shadowOpacity) use the same mask and the same
\* shadow, and a call differing in any of the five uses a distinct mask and
\* shadow.  A call that raised before it had a shadow uses none.
C3_AsStated ==
    \A p \in CallPairs :
        LET a == calls[p[1]]
            b == calls[p[2]]
        IN  /\ SameKey(a, b) =>
                /\ SameImage(a.mask, b.mask)
                /\ (a.shadow # None /\ b.shadow # None) => SameImage(a.shadow, b.shadow)
            /\ ~SameKey(a, b) =>
                /\ a.mask.id # b.mask.id
                /\ (a.shadow # None /\ b.shadow # None) => a.shadow.id # b.shadow.id

\* C3, amended: two calls with equal five parameters use the same cached mask
\* object when cornerRadius > 0 and the same cached shadow object when
\* shadowBlur > 0; with equal foreground and canvas sizes as well, the mask and
\* the shadow have identical pixels whatever the radius and the blur; a call
\* differing in any of the five parameters uses a distinct mask and shadow.
C3_SameKeySameSizes ==
    \A p \in CallPairs :
        LET a == calls[p[1]]
            b == calls[p[2]]
            both == a.shadow # None /\ b.shadow # None
        IN  /\ (SameKey(a, b) /\ a.radius > 0) => a.mask.id = b.mask.id
            /\ (SameKey(a, b) /\ a.shadow_blur > 0 /\ both) => a.shadow.id = b.shadow.id
            /\ (SameKey(a, b) /\ SameSizes(a, b)) =>
                /\ SameImage(a.mask, b.mask)
                /\ both => SameImage(a.shadow, b.shadow)
                /\ a.error = b.error
            /\ ~SameKey(a, b) =>
                /\ a.mask.id # b.mask.id
                /\ both => a.shadow.id # b.shadow.id

\* C3's case: a second call with the first one's parameters and sizes, rounded
\* and blurred, has been served from the cache.
C3_Witness ==
    /\ Len(calls) = 2
    /\ SameKey(calls[1], calls[2]) /\ SameSizes(calls[1], calls[2])
    /\ calls[1].radius > 0 /\ calls[1].shadow_blur > 0
    /\ calls[2].error = "none"
    /\ calls[2].mask.id = calls[1].mask.id
    /\ calls[2].shadow.id = calls[1].shadow.id
    /\ next_id = 3

\* --------------------------------------------------------- cursor claims
\* C7: with a four-channel sprite and a position outside the frame (x < 0,
\* x > frame width, y < 0 or y > frame height) render_cursor returns the frame
\* unchanged, pixel for pixel, and does not fail.
C7_OutsideLeavesFrame ==
    (/\ rendered # None
     /\ cursor_image.channels = 4
     /\ \/ cursor_args.x_offset < 0 \/ cursor_args.x_offset > frame.width
        \/ cursor_args.y_offset < 0 \/ cursor_args.y_offset > frame.height)
    => (rendered.error = "none" /\ rendered.frame = frame)

\* C7's case: a four-channel sprite below the frame's bottom, x within it.
C7_Witness ==
    /\ rendered # None
    /\ cursor_image.channels = 4
    /\ cursor_args.x_offset = 0
    /\ cursor_args.y_offset = frame.height + 1
    /\ cursor_args.scale = 10
    /\ rendered.error = "none" /\ rendered.frame = frame

\* ------------------------------------------------------ frame loop claims
\* C11: a run of n decodable frames without fatal error ends, having written
\* exactly n frames in input order, frame i at currentTime = startTime + i
\* frame periods; both handles are then released and the output path returned.
C11_LoopWritesEveryFrame ==
    /\ <>Terminated
    /\ [](error = "none" =>
            /\ Len(written) = frame_count
            /\ \A i \in 1..Len(written) : written[i].index = i - 1
            /\ (~params.output_raw /\ Len(written) > 0) =>
                   current_time = start_time + (Len(written) - 1)
            /\ pc = "done" =>
                   /\ Len(written) = params.n_frames
                   /\ cap = "released" /\ out = "released")

\* C11's case: a run of two frames with a cursor has ended, both written.
C11_Witness ==
    /\ pc = "done" /\ error = "none"
    /\ params.n_frames = 2 /\ ~params.output_raw
    /\ Len(written) = 2
    /\ written[1].index = 0 /\ written[2].index = 1
    /\ written[2].cursor = "drawn"
    /\ current_time = start_time + 1
    /\ cap = "released" /\ out = "released"

\* ------------------------------------------------------------ cache claims
Kept(table, table_after) ==
    \A key \in DOMAIN table : key \in DOMAIN table_after /\ table_after[key] = table[key]

\* C12: no step of a run changes the background canvas once it is resolved, nor
\* modifies, replaces or removes a mask or shadow the cache already holds.
C12_CanvasAndCacheKept ==
    [][/\ background_frame # None => background_frame' = background_frame
       /\ Kept(cache_mask, cache_mask')
       /\ Kept(cache_shadow, cache_shadow')]_vars

\* C12's case: two frames composited with rounded corners and a shadow, the
\* second one served by the entries the first one stored.
C12_Witness ==
    /\ pc = "done" /\ error = "none"
    /\ ~params.output_raw
    /\ params.border_radius > 0 /\ params.shadow_blur > 0
    /\ Len(written) = 2
    /\ background_frame # None
    /\ DOMAIN cache_mask # {} /\ DOMAIN cache_shadow # {}
    /\ next_id = 3

\* C13: in every compositing call with cornerRadius > 0, whatever calls came
\* before on the process-wide cache, the mask applied as the foreground's alpha
\* channel has the foreground's size and the shadow used has the canvas size.
C13_AsStated ==
    \A i \in 1..Len(calls) :
        calls[i].radius > 0 =>
            /\ calls[i].mask.size = calls[i].fg_size
            /\ calls[i].shadow # None => calls[i].shadow.size = calls[i].bg_size

\* ----------------------------------------------------------- blend claims
\* The sprite's size as drawn, and the part of the frame it covers from (x, y).
DrawnWidth ==
    IF cursor_args.scale > 0 THEN ScaledSize(cursor_image.width, cursor_args.scale)
    ELSE cursor_image.width
DrawnHeight ==
    IF cursor_args.scale > 0 THEN ScaledSize(cursor_image.height, cursor_args.scale)
    ELSE cursor_image.height
InOverlay(rc) ==
    /\ rc[2] > cursor_args.x_offset /\ rc[2] <= cursor_args.x_offset + DrawnWidth
    /\ rc[1] > cursor_args.y_offset /\ rc[1] <= cursor_args.y_offset + DrawnHeight
InBounds ==
    /\ 0 <= cursor_args.x_offset /\ cursor_args.x_offset <= frame.width
    /\ 0 <= cursor_args.y_offset /\ cursor_args.y_offset <= frame.height
\* value is cursor*a + frame*(1-a) with a = alpha/255, to the nearest integers
IsAlphaBlend(value, cursor_value, alpha, frame_value) ==
    LET exact255 == cursor_value * alpha + frame_value * (255 - alpha)
    IN  255 * value > exact255 - 255 /\ 255 * value < exact255 + 255

\* C14: for an in-bounds position, every pixel of the clipped overlay region is
\* cursorRGB*a + frameRGB*(1-a), a the sprite's alpha over 255, for every alpha
\* 0..255; the pixels outside the region are unchanged.
C14_AsStated ==
    (/\ rendered # None /\ rendered.error = "none"
     /\ cursor_image.channels = 4
     /\ InBounds)
    => \A rc \in DOMAIN frame.pix :
          IF InOverlay(rc)
          THEN IsAlphaBlend(rendered.frame.pix[rc], cursor_image.value,
                            cursor_image.alpha, frame.pix[rc])
          ELSE rendered.frame.pix[rc] = frame.pix[rc]

\* ------------------------------------------------------ content size claim
\* C15: for positive capture and canvas dimensions and a padding fraction p with
\* 0 <= p < 0.5, the planned content is at least 1x1 and its centered placement
\* lies inside the canvas.
C15_AsStated ==
    (/\ plan # None
     /\ plan.padding.isFloat
     /\ 0 <= plan.padding.num /\ 2 * plan.padding.num < PadDen)
    => /\ plan.geom.new_width >= 1
       /\ plan.geom.new_height >= 1
       /\ 0 <= plan.geom.x_offset
       /\ plan.geom.x_offset + plan.geom.new_width <= dims.screen_width
       /\ 0 <= plan.geom.y_offset
       /\ plan.geom.y_offset + plan.geom.new_height <= dims.screen_height

\* ------------------------------------------------- the frames of one run
\* A non-raw run from the line that sets start_time on, over every non-empty
\* time-ordered log.
FramesParams == [PickParams EXCEPT !.n_frames = MaxFrames]

InitFrames ==
    /\ dims \in RunDims
    /\ plan = None /\ prev_plan = None
    /\ BackgroundIdle /\ CacheEmpty /\ CallsIdle
    /\ error = "none"
    /\ pc = "start_loop"
    /\ params = FramesParams
    /\ mouse_events \in [has_move : {TRUE},
                          move : {m \in OrderedMoves(MaxMoves) :
                                     Len(m) > 0 /\ TimeOrdered(m)}]
    /\ current_time = 0
    /\ latest_mouse_event = 0
    /\ cap = "open" /\ out = "open"
    /\ out_size = <<dims.screen_width, dims.screen_height>>
    /\ geom = PlanGeometry(dims.orig_width, dims.orig_height,
                           dims.screen_width, dims.screen_height, params.padding)
    /\ frame_count = 0 /\ start_time = 0
    /\ written = <<>>

NextFrames ==
    \/ StartLoop
    \/ FrameStep
    \/ EndOfStream

SpecFrames == InitFrames /\ [][NextFrames]_vars

\* C16: with a non-empty time-ordered move log, every frame of a non-raw run
\* selects an event, frame 0 one whose time is startTime, and the index of the
\* selected event never decreases from a frame to the next.
C16_EventPerFrame ==
    (pc \in {"loop", "done", "failed"} /\ ~params.output_raw
        /\ Len(mouse_events.move) > 0 /\ TimeOrdered(mouse_events.move))
    => /\ \A i \in 1..Len(written) :
              /\ written[i].event \in 1..Len(mouse_events.move)
              /\ written[i].cursor # "none"
       /\ Len(written) > 0 => mouse_events.move[written[1].event].time = start_time
       /\ \A i \in 1..Len(written) : \A j \in i..Len(written) :
              written[i].event <= written[j].event

\* C16's case: two events at the log's first time, 1, and one at 2; frame 0
\* selected the second event and frame 1 the third.
C16_Witness ==
    /\ pc = "done"
    /\ Len(mouse_events.move) = 3
    /\ mouse_events.move[1].time = 1 /\ mouse_events.move[2].time = 1
    /\ mouse_events.move[3].time = 2
    /\ start_time = 1
    /\ Len(written) >= 2
    /\ written[1].event = 2
    /\ written[2].event = 3

====
